---- MODULE Spec2Model ----
(***************************************************************************)
(* Job lifecycle and progress streaming of the SEO research / content      *)
(* brief backend (backend/main.py, backend/brief_worker.py).               *)
(*                                                                         *)
(* The HTTP handlers run on one asyncio event loop; every worker runs on   *)
(* its own thread.  A handler without an await therefore runs without any  *)
(* other handler in between, but worker threads interleave with it at      *)
(* every access to the shared job_store.  Each action below is one access  *)
(* to job_store together with the thread-local computation that follows.   *)
(***************************************************************************)
EXTENDS Naturals, Sequences, FiniteSets, TLC

\* ---------------------------------------------------------------- bounds
MaxJobs == 2        \* jobs submitted in one run of the process
MaxLen == 2         \* length of a submitted game_name / keyword
MaxSteps == 1       \* step callbacks fired by one crew.kickoff()
MaxTicks == 1       \* sleeps of one stream connection
MaxResults == 6     \* organic results the search collaborator returns
MaxIdleTicks == 45  \* sleeps of a connection that is followed through its heartbeats

\* ------------------------------------------------------- program constants
HeartbeatEvery == 15    \* main.py:195 / main.py:285
TopN == 5               \* brief_worker.py:44

Chars == {" ", "a"}
Inputs == UNION {[1..n -> Chars] : n \in 0..MaxLen}
Prefixes == {"", "brief-"}

\* an Optional[str] field: None, or a value
Null == <<>>
Some(v) == <<v>>

\* ------------------------------------------------------------ pure helpers

\* str.strip(): drop leading and trailing whitespace
RECURSIVE lstrip(_)
lstrip(s) == IF s # <<>> /\ Head(s) = " " THEN lstrip(Tail(s)) ELSE s

RECURSIVE rstrip(_)
rstrip(s) ==
    IF s # <<>> /\ s[Len(s)] = " " THEN rstrip(SubSeq(s, 1, Len(s) - 1)) ELSE s

\* the input taken as it came, the call to strip() forgotten
strip_forgotten(s) == s

strip(s) == rstrip(lstrip(s))

\* a progress message: an f-string's fixed text and the value it embeds
Msg(text, arg) == <<text, arg>>

IsPrefix(s, t) == Len(s) <= Len(t) /\ SubSeq(t, 1, Len(s)) = s

Terminal == {"complete", "error"}

VARIABLES
    job_store,  \* main.py:43  job_id -> [status, progress, report_html, error]
    thread,     \* worker threads: job_id -> the thread's locals and position
    http,       \* the request the event loop served last, with its response
    stream      \* the event_generator of a stream connection

vars == <<job_store, thread, http, stream>>

\* uuid.uuid4(): an identifier no earlier call returned
uuid4 == Cardinality(DOMAIN job_store) + 1

\* the entry both submit handlers insert (main.py:144-149, 236-241)
NewJob == [status |-> "queued", progress |-> <<>>, report_html |-> Null, error |-> Null]

NoStream == [pc |-> "none"]
NoRequest == [op |-> "none"]

Init ==
    /\ job_store = [k \in {} |-> NewJob]
    /\ thread = [k \in {} |-> NewJob]
    /\ http = NoRequest
    /\ stream = NoStream

\* ------------------------------------------------------------------ store

Put(store, id, job) == [k \in DOMAIN store \cup {id} |-> IF k = id THEN job ELSE store[k]]

\* insert(0, message) in place of append(message)
_push_progress_front(store, job_id, message) ==
    IF job_id \in DOMAIN store
    THEN [store EXCEPT ![job_id].progress = <<message>> \o @]
    ELSE store

\* _push_progress (main.py:48-50) and _push (brief_worker.py:17-19)
_push_progress(store, job_id, message) ==
    IF job_id \in DOMAIN store
    THEN [store EXCEPT ![job_id].progress = Append(@, message)]
    ELSE store

\* ------------------------------------------------------------- event loop
\* One coroutine runs on the loop at a time.  A status handler holds the loop
\* from its first statement to its return; event_generator holds it from the
\* read of the status (main.py:273) to the yield that follows.
\* Sending a response touches nothing shared, so it is taken as soon as the
\* handler has returned (Respond, below), before any other step, and http holds
\* no response after it.
HandlerRunning == http.op # "none" /\ http.pc # "done"
Responding == http.op # "none" /\ http.pc = "done"
GeneratorRunning == stream.pc \in {"L273", "L277", "L281"}
LoopFree == ~HandlerRunning /\ ~Responding /\ ~GeneratorRunning

\* ------------------------------------------------------------ submissions

\* threading.Thread(target=_run_crew, args=(job_id, game_name)).start()
CrewThread == [target |-> "_run_crew", pc |-> "L73", steps |-> 0, exc |-> "",
               report_html |-> Null]

\* POST /api/research (main.py:137-155)
start_research(s) ==
    /\ LoopFree
    /\ LET game_name == strip(s)
           job_id == <<"", uuid4>>
       IN IF game_name = <<>>
          THEN /\ http' = [op |-> "start_research", pc |-> "done", input |-> s,
                           code |-> 422]
               /\ UNCHANGED <<job_store, thread>>
          ELSE /\ Cardinality(DOMAIN job_store) < MaxJobs
               /\ job_store' = Put(job_store, job_id, NewJob)
               /\ thread' = Put(thread, job_id, CrewThread)
               /\ http' = [op |-> "start_research", pc |-> "done", input |-> s,
                           code |-> 200, job_id |-> job_id]
    /\ UNCHANGED stream

\* POST /api/content-brief (main.py:227-250).  The job is inserted at line 236;
\* building the Thread's args at line 245 reads request.competitor_urls, a field
\* ContentBriefRequest (schemas/models.py:9-10) does not have: AttributeError,
\* so no thread is started and the request ends as a server error.
start_content_brief(s) ==
    /\ LoopFree
    /\ LET keyword == strip(s)
           job_id == <<"brief-", uuid4>>
       IN IF keyword = <<>>
          THEN /\ http' = [op |-> "start_content_brief", pc |-> "done", input |-> s,
                           code |-> 422]
               /\ UNCHANGED <<job_store, thread>>
          ELSE /\ Cardinality(DOMAIN job_store) < MaxJobs
               /\ job_store' = Put(job_store, job_id, NewJob)
               /\ thread' = thread
               /\ http' = [op |-> "start_content_brief", pc |-> "done", input |-> s,
                           code |-> 500]
    /\ UNCHANGED stream

\* ------------------------------------------------- _run_crew (main.py:70-104)

At(j, pc) == ~Responding /\ j \in DOMAIN thread /\ thread[j].pc = pc
Goto(j, pc) == [thread EXCEPT ![j].pc = pc]
Raise(j, exc, handler) == [thread EXCEPT ![j].exc = exc, ![j].pc = handler]
\* str(exc) is a string even when the exception carries no text
str(exc) == Some(exc)

\* _wrap_in_html (main.py:107-129): a document that starts with "<!"
_wrap_in_html(content) == <<"<!DOCTYPE html>", "<pre>", content>>

\* main.py:85-92: the crew's raw result, wrapped unless it already is HTML
\* a document is the sequence of its parts; the crew answers with one part
report_of(raw) == IF raw = "<!DOCTYPE html>" THEN <<raw>> ELSE _wrap_in_html(raw)

RawResults == {"<!DOCTYPE html>", "plain text"}

\* main.py:73
crew_L73(j) ==
    /\ At(j, "L73") /\ thread[j].target = "_run_crew"
    /\ job_store' = _push_progress(job_store, j, Msg("Starting research for: ", "game_name"))
    /\ thread' = Goto(j, "L74")
    /\ UNCHANGED <<http, stream>>

\* main.py:74-79: status, then import and build the crew (may raise)
crew_L74(j) ==
    /\ At(j, "L74")
    /\ job_store' = [job_store EXCEPT ![j].status = "running"]
    /\ \E ok \in BOOLEAN :
          thread' = IF ok THEN Goto(j, "L81")
                    ELSE Raise(j, "build_seo_crew failed", "L101")
    /\ UNCHANGED <<http, stream>>

\* main.py:81
crew_L81(j) ==
    /\ At(j, "L81")
    /\ job_store' = _push_progress(job_store, j, Msg("Crew assembled", ""))
    /\ thread' = Goto(j, "L82")
    /\ UNCHANGED <<http, stream>>

\* main.py:55-66: a step callback fired inside crew.kickoff()
crew_callback(j) ==
    /\ At(j, "L82")
    /\ thread[j].steps < MaxSteps
    /\ job_store' = _push_progress(job_store, j, Msg("step", ""))
    /\ thread' = [thread EXCEPT ![j].steps = @ + 1]
    /\ UNCHANGED <<http, stream>>

\* main.py:82-92: crew.kickoff() returns a result or raises
crew_L82(j) ==
    /\ At(j, "L82")
    /\ \/ thread' = Raise(j, "kickoff failed", "L101")
       \/ \E raw \in RawResults :
             thread' = [thread EXCEPT ![j].report_html = Some(report_of(raw)),
                                     ![j].pc = "L94"]
    /\ UNCHANGED <<job_store, http, stream>>

\* main.py:94
crew_L94(j) ==
    /\ At(j, "L94")
    /\ job_store' = [job_store EXCEPT ![j].report_html = thread[j].report_html]
    /\ thread' = Goto(j, "L95")
    /\ UNCHANGED <<http, stream>>

\* main.py:95
crew_L95(j) ==
    /\ At(j, "L95")
    /\ job_store' = [job_store EXCEPT ![j].status = "complete"]
    /\ thread' = Goto(j, "L96")
    /\ UNCHANGED <<http, stream>>

\* the last message is lost to an exception, which the handler at line 98
\* catches after the status is already complete
crew_L96_raising(j) ==
    /\ At(j, "L96")
    /\ thread' = Raise(j, "progress write failed", "L101")
    /\ UNCHANGED <<job_store, http, stream>>

\* main.py:96
crew_L96(j) ==
    /\ At(j, "L96")
    /\ job_store' = _push_progress(job_store, j, Msg("Research complete!", ""))
    /\ thread' = Goto(j, "done")
    /\ UNCHANGED <<http, stream>>

\* main.py:98-101
crew_L101(j) ==
    /\ At(j, "L101")
    /\ job_store' = [job_store EXCEPT ![j].status = "error"]
    /\ thread' = Goto(j, "L102")
    /\ UNCHANGED <<http, stream>>

\* main.py:102
crew_L102(j) ==
    /\ At(j, "L102")
    /\ job_store' = [job_store EXCEPT ![j].error = str(thread[j].exc)]
    /\ thread' = Goto(j, "L103")
    /\ UNCHANGED <<http, stream>>

\* main.py:103-104
crew_L103(j) ==
    /\ At(j, "L103")
    /\ job_store' = _push_progress(job_store, j, Msg("ERROR: ", thread[j].exc))
    /\ thread' = Goto(j, "done")
    /\ UNCHANGED <<http, stream>>

_run_crew(j) ==
    \/ crew_L73(j) \/ crew_L74(j) \/ crew_L81(j) \/ crew_callback(j) \/ crew_L82(j)
    \/ crew_L94(j) \/ crew_L95(j) \/ crew_L96(j)
    \/ crew_L101(j) \/ crew_L102(j) \/ crew_L103(j)

JobIds == Prefixes \X (1..MaxJobs)

\* the identifiers a client asks about: those of the store, and one that was
\* never issued (the handlers only test membership in job_store)
Unknown == <<"", 0>>
Asked == DOMAIN job_store \cup {Unknown}

\* ------------------------------- run_content_brief (brief_worker.py:24-159)

Min(a, b) == IF a < b THEN a ELSE b

\* os.getenv: which of the two keys the process environment holds
Environs == [SERPER_API_KEY : BOOLEAN, ANTHROPIC_API_KEY : BOOLEAN]

\* the locals of run_content_brief(job_store, job_id, keyword) at its first
\* line, with the environment the thread reads and the calls it has issued to
\* its collaborators (search, page fetch, analysis, renderer), in order
BriefThread(environ) ==
    [target |-> "run_content_brief", pc |-> "L26", exc |-> "",
     organic |-> 0, i |-> 0, competitor_data |-> <<>>,
     report_html |-> Null, environ |-> environ, calls |-> <<>>]

\* a call issued: to whom, its argument or result size, and whether it returned
Call(t, to, arg, ok) == [t EXCEPT !.calls = Append(@, [to |-> to, arg |-> arg, ok |-> ok])]

\* what the parse of a fetched page may extract (brief_worker.py:81-84)
Contents == {"", "text"}

\* _format_report (brief_worker.py:164-261): a document with one table row per
\* competitor
_format_report(brief_text, competitors) ==
    <<"<!DOCTYPE html>", brief_text>>
        \o [k \in 1..Len(competitors) |-> ToString(competitors[k].position)]

\* brief_worker.py:26
brief_L26(j) ==
    /\ At(j, "L26")
    /\ job_store' = [job_store EXCEPT ![j].status = "running"]
    /\ thread' = Goto(j, "L27")
    /\ UNCHANGED <<http, stream>>

\* brief_worker.py:27-32: the first message, then the SERPER_API_KEY check
brief_L27(j) ==
    /\ At(j, "L27")
    /\ job_store' = _push_progress(job_store, j, Msg("Starting content brief for: ", "keyword"))
    /\ LET serper_key == thread[j].environ.SERPER_API_KEY
       IN thread' = IF serper_key THEN Goto(j, "L34")
                    ELSE Raise(j, "SERPER_API_KEY is not set in environment", "L157")
    /\ UNCHANGED <<http, stream>>

\* the search result taken as it is, the test for an empty list left out
brief_L34_unchecked(j) ==
    /\ At(j, "L34")
    /\ job_store' = _push_progress(job_store, j, Msg("Searching Google via Serper API...", ""))
    /\ \E results \in 0..MaxResults :
          thread' = [thread EXCEPT ![j] =
             [Call(@, "search", results, TRUE) EXCEPT
                 !.organic = Min(results, TopN), !.pc = "L48"]]
    /\ UNCHANGED <<http, stream>>

\* brief_worker.py:34-46: the message, then the search call and its result
brief_L34(j) ==
    /\ At(j, "L34")
    /\ job_store' = _push_progress(job_store, j, Msg("Searching Google via Serper API...", ""))
    /\ \/ thread' = [thread EXCEPT ![j] =
                [Call(@, "search", 0, FALSE) EXCEPT !.exc = "search request failed",
                                                    !.pc = "L157"]]
       \/ \E results \in 0..MaxResults :
             thread' = [thread EXCEPT ![j] =
                IF Min(results, TopN) = 0
                THEN [Call(@, "search", results, TRUE) EXCEPT
                         !.exc = "No organic search results returned by Serper",
                         !.pc = "L157"]
                ELSE [Call(@, "search", results, TRUE) EXCEPT
                         !.organic = Min(results, TopN), !.pc = "L48"]]
    /\ UNCHANGED <<http, stream>>

\* brief_worker.py:48-56
brief_L48(j) ==
    /\ At(j, "L48")
    /\ job_store' = _push_progress(job_store, j, Msg("Found results: ", ToString(thread[j].organic)))
    /\ thread' = [thread EXCEPT ![j].i = 1, ![j].pc = "L59"]
    /\ UNCHANGED <<http, stream>>

\* brief_worker.py:59-87: the message, then the page fetch and its parse
brief_L59(j) ==
    /\ At(j, "L59")
    /\ job_store' = _push_progress(job_store, j, Msg("Fetching ", ToString(thread[j].i)))
    /\ \E fetched \in BOOLEAN :
          thread' = [thread EXCEPT ![j] =
             [Call(@, "page", thread[j].i, fetched) EXCEPT
                 !.pc = IF fetched THEN "L89" ELSE "L98"]]
    /\ UNCHANGED <<http, stream>>

\* brief_worker.py:56: the next turn of the for loop, or the statement after it
NextPage(t) ==
    IF t.i < t.organic THEN [t EXCEPT !.i = @ + 1, !.pc = "L59"]
    ELSE [t EXCEPT !.pc = "L104"]

\* brief_worker.py:89-95: the page's entry, then the message
brief_L89(j) ==
    /\ At(j, "L89")
    /\ job_store' = _push_progress(job_store, j, Msg("Extracted content from page ", ToString(thread[j].i)))
    /\ \E content \in Contents :
          thread' = [thread EXCEPT ![j] =
             NextPage([@ EXCEPT !.competitor_data =
                         Append(@, [position |-> thread[j].i, content |-> content])])]
    /\ UNCHANGED <<http, stream>>

\* the skip noted, the placeholder entry left out
brief_L98_no_placeholder(j) ==
    /\ At(j, "L98")
    /\ job_store' = _push_progress(job_store, j, Msg("Skipped page ", ToString(thread[j].i)))
    /\ thread' = [thread EXCEPT ![j] = NextPage(@)]
    /\ UNCHANGED <<http, stream>>

\* brief_worker.py:97-101: the message, then the placeholder entry
brief_L98(j) ==
    /\ At(j, "L98")
    /\ job_store' = _push_progress(job_store, j, Msg("Skipped page ", ToString(thread[j].i)))
    /\ thread' = [thread EXCEPT ![j] =
          NextPage([@ EXCEPT !.competitor_data =
                      Append(@, [position |-> thread[j].i, content |-> ""])])]
    /\ UNCHANGED <<http, stream>>

\* brief_worker.py:104-132
brief_L104(j) ==
    /\ At(j, "L104")
    /\ job_store' = _push_progress(job_store, j, Msg("Building competitor analysis prompt...", ""))
    /\ thread' = Goto(j, "L135")
    /\ UNCHANGED <<http, stream>>

\* brief_worker.py:135-144: the message, then the analysis call.  Without
\* ANTHROPIC_API_KEY the client raises before it sends a request.
brief_L135(j) ==
    /\ At(j, "L135")
    /\ job_store' = _push_progress(job_store, j, Msg("Sending to Claude for content brief analysis...", ""))
    /\ IF ~thread[j].environ.ANTHROPIC_API_KEY
       THEN thread' = Raise(j, "api_key is not set", "L157")
       ELSE \E answered \in BOOLEAN :
               thread' = [thread EXCEPT ![j] =
                  IF answered
                  THEN [Call(@, "analysis", 0, TRUE) EXCEPT !.pc = "L145"]
                  ELSE [Call(@, "analysis", 0, FALSE) EXCEPT
                           !.exc = "analysis request failed", !.pc = "L157"]]
    /\ UNCHANGED <<http, stream>>

\* brief_worker.py:145-148: the message, then the rendering
brief_L145(j) ==
    /\ At(j, "L145")
    /\ job_store' = _push_progress(job_store, j, Msg("Claude analysis complete", ""))
    /\ thread' = [thread EXCEPT ![j] =
          [Call(@, "_format_report", Len(thread[j].competitor_data), TRUE) EXCEPT
              !.report_html = Some(_format_report("brief_text", thread[j].competitor_data)),
              !.pc = "L150"]]
    /\ UNCHANGED <<http, stream>>

\* brief_worker.py:150
brief_L150(j) ==
    /\ At(j, "L150")
    /\ job_store' = [job_store EXCEPT ![j].report_html = thread[j].report_html]
    /\ thread' = Goto(j, "L151")
    /\ UNCHANGED <<http, stream>>

\* brief_worker.py:151
brief_L151(j) ==
    /\ At(j, "L151")
    /\ job_store' = [job_store EXCEPT ![j].status = "complete"]
    /\ thread' = Goto(j, "L152")
    /\ UNCHANGED <<http, stream>>

\* brief_worker.py:152
brief_L152(j) ==
    /\ At(j, "L152")
    /\ job_store' = _push_progress(job_store, j, Msg("Content brief ready!", ""))
    /\ thread' = Goto(j, "done")
    /\ UNCHANGED <<http, stream>>

\* the failure swallowed: the worker goes on to render without an analysis
brief_L157_swallowing(j) ==
    /\ At(j, "L157")
    /\ thread' = Goto(j, "L145")
    /\ UNCHANGED <<job_store, http, stream>>

\* brief_worker.py:154-157
brief_L157(j) ==
    /\ At(j, "L157")
    /\ job_store' = [job_store EXCEPT ![j].status = "error"]
    /\ thread' = Goto(j, "L158")
    /\ UNCHANGED <<http, stream>>

\* brief_worker.py:158
brief_L158(j) ==
    /\ At(j, "L158")
    /\ job_store' = [job_store EXCEPT ![j].error = str(thread[j].exc)]
    /\ thread' = Goto(j, "L159")
    /\ UNCHANGED <<http, stream>>

\* brief_worker.py:159
brief_L159(j) ==
    /\ At(j, "L159")
    /\ job_store' = _push_progress(job_store, j, Msg("ERROR: ", thread[j].exc))
    /\ thread' = Goto(j, "done")
    /\ UNCHANGED <<http, stream>>

run_content_brief(j) ==
    \/ brief_L26(j) \/ brief_L27(j) \/ brief_L34(j) \/ brief_L48(j) \/ brief_L59(j)
    \/ brief_L89(j) \/ brief_L98(j) \/ brief_L104(j) \/ brief_L135(j) \/ brief_L145(j)
    \/ brief_L150(j) \/ brief_L151(j) \/ brief_L152(j)
    \/ brief_L157(j) \/ brief_L158(j) \/ brief_L159(j)

\* ------------------------------------------------------------ status query
\* GET /api/research/{job_id} (main.py:204-215) and its twin
\* GET /api/content-brief/{job_id} (main.py:294-305): the same statements on the
\* same job_store.  The arguments of JobStatus(...) are read one after the
\* other; a worker thread may write between two reads.

\* main.py:296-301: the lookup and the read of job["status"]
status_L296(job_id) ==
    /\ LoopFree
    /\ http' = IF job_id \notin DOMAIN job_store
               THEN [op |-> "get_status", pc |-> "done", job_id |-> job_id, code |-> 404]
               ELSE [op |-> "get_status", pc |-> "L303", job_id |-> job_id,
                     status |-> job_store[job_id].status]
    /\ UNCHANGED <<job_store, thread, stream>>

\* main.py:303: job.get("report_html")
status_L303 ==
    /\ http.op = "get_status" /\ http.pc = "L303"
    /\ http' = [op |-> "get_status", pc |-> "L304", job_id |-> http.job_id,
                status |-> http.status,
                report_html |-> job_store[http.job_id].report_html]
    /\ UNCHANGED <<job_store, thread, stream>>

\* main.py:304: job.get("error")
status_L304 ==
    /\ http.op = "get_status" /\ http.pc = "L304"
    /\ http' = [op |-> "get_status", pc |-> "L299", job_id |-> http.job_id,
                status |-> http.status, report_html |-> http.report_html,
                error |-> job_store[http.job_id].error]
    /\ UNCHANGED <<job_store, thread, stream>>

\* main.py:299-305: JobStatus(...) copies the progress list; the response
status_L299 ==
    /\ http.op = "get_status" /\ http.pc = "L299"
    /\ http' = [op |-> "get_status", pc |-> "done", job_id |-> http.job_id,
                code |-> 200, status |-> http.status,
                progress |-> job_store[http.job_id].progress,
                report_html |-> http.report_html, error |-> http.error]
    /\ UNCHANGED <<job_store, thread, stream>>

get_content_brief_status ==
    \/ \E job_id \in Asked : status_L296(job_id)
    \/ status_L303 \/ status_L304 \/ status_L299

\* GET /health (main.py:218-220)
health ==
    /\ LoopFree
    /\ http' = [op |-> "health", pc |-> "done", code |-> 200,
                jobs |-> Cardinality(DOMAIN job_store)]
    /\ UNCHANGED <<job_store, thread, stream>>

\* ------------------------------------------------------------------ stream
\* GET /api/content-brief/{job_id}/stream (main.py:253-291) and its twin
\* GET /api/research/{job_id}/stream (main.py:158-201).

\* yield {"event": ..., "data": ...}
Emit(event, data) == Append(stream.events, [event |-> event, data |-> data])

\* the connection opened without the lookup of the identifier
stream_content_brief_unchecked(job_id) ==
    /\ LoopFree
    /\ stream.pc = "none"
    /\ http' = [op |-> "stream", pc |-> "done", job_id |-> job_id, code |-> 200]
    /\ stream' = [pc |-> "L263", job_id |-> job_id, last_idx |-> 0,
                  heartbeat_counter |-> 0, ticks |-> 0, events |-> <<>>]
    /\ UNCHANGED <<job_store, thread>>

\* main.py:254-260, 291: the 404 check, then the generator's initial locals
stream_content_brief(job_id) ==
    /\ LoopFree
    /\ IF job_id \notin DOMAIN job_store
       THEN /\ http' = [op |-> "stream", pc |-> "done", job_id |-> job_id, code |-> 404]
            /\ UNCHANGED stream
       ELSE /\ stream.pc = "none"
            /\ http' = [op |-> "stream", pc |-> "done", job_id |-> job_id, code |-> 200]
            /\ stream' = [pc |-> "L263", job_id |-> job_id, last_idx |-> 0,
                          heartbeat_counter |-> 0, ticks |-> 0, events |-> <<>>]
    /\ UNCHANGED <<job_store, thread>>

\* one message is sent and last_idx jumps to the end of the log
ForwardProgress_skipping ==
    LET progress == job_store[stream.job_id].progress
    IN IF stream.last_idx < Len(progress)
       THEN [stream EXCEPT !.events = Emit("progress", progress[stream.last_idx + 1]),
                           !.last_idx = Len(progress),
                           !.pc = "L269"]
       ELSE [stream EXCEPT !.pc = "L273"]

\* main.py:269-271: one turn of the inner while loop
ForwardProgress ==
    LET progress == job_store[stream.job_id].progress
    IN IF stream.last_idx < Len(progress)
       THEN [stream EXCEPT !.events = Emit("progress", progress[stream.last_idx + 1]),
                           !.last_idx = @ + 1,
                           !.pc = "L269"]
       ELSE [stream EXCEPT !.pc = "L273"]

\* main.py:263-271: what the top of the loop does on the store it finds: the
\* lookup, then the error event and return, or the first turn of the while
LoopTop(store) ==
    IF stream.job_id \notin DOMAIN store
    THEN [stream EXCEPT !.events = Emit("error", Some("Job not found")),
                        !.pc = "closed"]
    ELSE ForwardProgress

\* main.py:263-271: top of the loop
stream_L263 ==
    /\ stream.pc = "L263"
    /\ LoopFree
    /\ stream' = LoopTop(job_store)
    /\ UNCHANGED <<job_store, thread, http>>

\* main.py:269-271: resumed after a progress event was sent
stream_L269 ==
    /\ stream.pc = "L269"
    /\ LoopFree
    /\ stream' = ForwardProgress
    /\ UNCHANGED <<job_store, thread, http>>

\* the heartbeat sent, the counter left as it is
Heartbeat_no_reset(s) ==
    IF s.heartbeat_counter + 1 >= HeartbeatEvery
    THEN [s EXCEPT !.events = Append(@, [event |-> "heartbeat", data |-> "ping"]),
                   !.heartbeat_counter = @ + 1]
    ELSE [s EXCEPT !.heartbeat_counter = @ + 1]

\* main.py:284-287
Heartbeat(s) ==
    IF s.heartbeat_counter + 1 >= HeartbeatEvery
    THEN [s EXCEPT !.events = Append(@, [event |-> "heartbeat", data |-> "ping"]),
                   !.heartbeat_counter = 0]
    ELSE [s EXCEPT !.heartbeat_counter = @ + 1]

\* the status is looked at only from the second iteration on
stream_L273_after_first_sleep ==
    /\ stream.pc = "L273"
    /\ LET status == job_store[stream.job_id].status
       IN stream' = CASE status = "complete" /\ stream.ticks > 0 -> [stream EXCEPT !.pc = "L277"]
                      [] status = "error" /\ stream.ticks > 0 -> [stream EXCEPT !.pc = "L281"]
                      [] OTHER -> [Heartbeat(stream) EXCEPT !.pc = "L289"]
    /\ UNCHANGED <<job_store, thread, http>>

\* the branch on status error left out: an error job is polled like a running one
stream_L273_ignoring_error ==
    /\ stream.pc = "L273"
    /\ LET status == job_store[stream.job_id].status
       IN stream' = CASE status = "complete" -> [stream EXCEPT !.pc = "L277"]
                      [] OTHER -> [Heartbeat(stream) EXCEPT !.pc = "L289"]
    /\ UNCHANGED <<job_store, thread, http>>

\* main.py:273-287: the read of the status and the branch on it
stream_L273 ==
    /\ stream.pc = "L273"
    /\ LET status == job_store[stream.job_id].status
       IN stream' = CASE status = "complete" -> [stream EXCEPT !.pc = "L277"]
                      [] status = "error" -> [stream EXCEPT !.pc = "L281"]
                      [] OTHER -> [Heartbeat(stream) EXCEPT !.pc = "L289"]
    /\ UNCHANGED <<job_store, thread, http>>

\* the complete event without the return: the loop goes on to its sleep
stream_L277_no_return ==
    /\ stream.pc = "L277"
    /\ stream' = [stream EXCEPT !.events = Emit("complete",
                              [report_html |-> job_store[stream.job_id].report_html]),
                                !.pc = "L289"]
    /\ UNCHANGED <<job_store, thread, http>>

\* main.py:276-279: the complete event, then return
stream_L277 ==
    /\ stream.pc = "L277"
    /\ stream' = [stream EXCEPT !.events = Emit("complete",
                              [report_html |-> job_store[stream.job_id].report_html]),
                                !.pc = "closed"]
    /\ UNCHANGED <<job_store, thread, http>>

\* main.py:280-282: the error event, then return
stream_L281 ==
    /\ stream.pc = "L281"
    /\ stream' = [stream EXCEPT !.events = Emit("error", job_store[stream.job_id].error),
                                !.pc = "closed"]
    /\ UNCHANGED <<job_store, thread, http>>

\* main.py:289: await asyncio.sleep(1), then back to the top of the loop;
\* a connection is followed for at most limit sleeps
sleep(limit) ==
    /\ stream.pc = "L289"
    /\ LoopFree
    /\ stream.ticks < limit
    /\ stream' = [stream EXCEPT !.ticks = @ + 1, !.pc = "L263"]
    /\ UNCHANGED <<job_store, thread, http>>

stream_L289 == sleep(MaxTicks)

event_generator ==
    \/ stream_L263 \/ stream_L269 \/ stream_L273
    \/ stream_L277 \/ stream_L281 \/ stream_L289

\* the generator is suspended at a yield or in the sleep, not yet returned
Suspended == stream.pc \in {"L263", "L269", "L289"}

\* the disconnect answered by cancelling the worker thread of the job
disconnect_cancelling ==
    /\ Suspended /\ LoopFree
    /\ stream' = [stream EXCEPT !.pc = "cancelled"]
    /\ thread' = [j \in DOMAIN thread |->
                    IF j = stream.job_id THEN [thread[j] EXCEPT !.pc = "done"]
                    ELSE thread[j]]
    /\ UNCHANGED <<job_store, http>>

\* the client goes away (main.py:201, 291): EventSourceResponse cancels the
\* suspended generator, which runs no further statement
disconnect ==
    /\ Suspended /\ LoopFree
    /\ stream' = [stream EXCEPT !.pc = "cancelled"]
    /\ UNCHANGED <<job_store, thread, http>>

\* the response leaves the process; the loop takes the next request
Respond ==
    /\ Responding
    /\ http' = NoRequest
    /\ UNCHANGED <<job_store, thread, stream>>

Next ==
    \/ \E s \in Inputs : start_research(s)
    \/ \E s \in Inputs : start_content_brief(s)
    \/ \E j \in JobIds : _run_crew(j)
    \/ get_content_brief_status
    \/ health
    \/ \E job_id \in Asked : stream_content_brief(job_id)
    \/ event_generator
    \/ disconnect
    \/ Respond

Spec == Init /\ [][Next]_vars

\* ------------------------------------------------------------ the worker alone
\* No request makes the process run run_content_brief (see start_content_brief).
\* BriefSpec runs it as it is declared, run_content_brief(job_store, job_id,
\* keyword), on the entry POST /api/content-brief left in the store, next to the
\* handlers that read that entry.

BriefJob == <<"brief-", 1>>

InitBrief ==
    /\ job_store = [k \in {BriefJob} |-> NewJob]
    /\ thread = [k \in {} |-> NewJob]
    /\ http = NoRequest
    /\ stream = NoStream

\* the call run_content_brief(job_store, job_id, keyword)
call_run_content_brief(j) ==
    /\ ~Responding
    /\ j \in DOMAIN job_store /\ j \notin DOMAIN thread
    /\ j[1] = "brief-"
    /\ \E environ \in Environs : thread' = Put(thread, j, BriefThread(environ))
    /\ UNCHANGED <<job_store, http, stream>>

NextBrief ==
    \/ \E j \in JobIds : call_run_content_brief(j)
    \/ \E j \in JobIds : run_content_brief(j)
    \/ get_content_brief_status
    \/ health
    \/ \E job_id \in Asked : stream_content_brief(job_id)
    \/ event_generator
    \/ disconnect
    \/ Respond

BriefSpec == InitBrief /\ [][NextBrief]_vars

\* the worker by itself, no reader next to it
NextWorker ==
    \/ \E j \in JobIds : call_run_content_brief(j)
    \/ \E j \in JobIds : run_content_brief(j)

WorkerSpec == InitBrief /\ [][NextWorker]_vars

\* ------------------------------------------------- one connection, followed long
\* One research job, as POST /api/research leaves it, its worker, and one
\* connection followed for MaxIdleTicks sleeps.

ResearchJob == <<"", 1>>

InitStream ==
    /\ job_store = [k \in {ResearchJob} |-> NewJob]
    /\ thread = [k \in {ResearchJob} |-> CrewThread]
    /\ http = NoRequest
    /\ stream = NoStream

stream_L289_long == sleep(MaxIdleTicks)

NextStream ==
    \/ \E j \in JobIds : _run_crew(j)
    \/ \E job_id \in Asked : stream_content_brief(job_id)
    \/ stream_L263 \/ stream_L269 \/ stream_L273
    \/ stream_L277 \/ stream_L281 \/ stream_L289_long
    \/ disconnect
    \/ Respond

StreamSpec == InitStream /\ [][NextStream]_vars

\* The event loop takes its ready coroutines in turn: a generator that is ready
\* again and again is run, however many other requests arrive (strong
\* fairness); every response is sent and every worker thread is scheduled
\* again and again.  The client may disconnect at any time, or never.
FairStreamSpec ==
    /\ StreamSpec
    /\ SF_vars(stream_L263 \/ stream_L269 \/ stream_L273
                  \/ stream_L277 \/ stream_L281 \/ stream_L289_long)
    /\ WF_vars(Respond)
    /\ \A j \in JobIds : WF_vars(_run_crew(j))

\* Every worker thread is scheduled again and again, every external call it
\* waits for returns or fails, and the loop sends every response.
FairSpec ==
    /\ Spec
    /\ WF_vars(Respond)
    /\ \A j \in JobIds : WF_vars(_run_crew(j))

\* =================================================================== claims

Submissions == {"start_research", "start_content_brief"}

\* the input is empty or whitespace-only
IsBlank(s) == \A i \in 1..Len(s) : s[i] = " "

\* this step is a submit handler serving the input http'.input
Submits == http.op = "none" /\ http'.op \in Submissions

\* C1: a submission with a non-blank input inserts exactly one new job, under
\* an identifier that was not in the store, queued with empty progress and no
\* report or error, starts a worker for it and returns the identifier.
C1_SubmitCreatesJobAndWorker ==
    [][(Submits /\ ~IsBlank(http'.input)) =>
         \E id \in JobIds :
            /\ id \notin DOMAIN job_store
            /\ DOMAIN job_store' = DOMAIN job_store \cup {id}
            /\ \A k \in DOMAIN job_store : job_store'[k] = job_store[k]
            /\ job_store'[id] = NewJob
            /\ id \notin DOMAIN thread /\ id \in DOMAIN thread'
            /\ http'.code = 200
            /\ http'.job_id = id]_vars

\* C2: a submission with an empty or whitespace-only input is answered 422 and
\* changes neither the job store nor the set of workers.
C2_BlankRejected ==
    [][(Submits /\ IsBlank(http'.input)) =>
         /\ http'.code = 422
         /\ job_store' = job_store
         /\ thread' = thread]_vars

\* a whitespace-only input was rejected while the store already held a job
C2_Witness ==
    /\ http.op \in Submissions /\ http.pc = "done"
    /\ http.input = <<" ", " ">>
    /\ http.code = 422
    /\ DOMAIN job_store # {}

\* C3: every job in the store eventually reaches a terminal status, when the
\* workers are scheduled fairly and every external call returns or fails.
C3_EveryJobTerminates ==
    \A j \in JobIds :
        (j \in DOMAIN job_store)
            ~> (j \in DOMAIN job_store /\ job_store[j].status \in Terminal)

Forward == {<<"queued", "running">>, <<"running", "complete">>,
            <<"running", "error">>, <<"queued", "error">>}

\* C4: no job leaves the store, and every change of a job's status is one of
\* queued->running, running->complete, running->error, queued->error; so a
\* terminal status never changes.
C4_StatusForward ==
    [][\A j \in DOMAIN job_store :
         /\ j \in DOMAIN job_store'
         /\ \/ job_store'[j].status = job_store[j].status
            \/ <<job_store[j].status, job_store'[j].status>> \in Forward]_vars

\* one job ended complete and another ended in error, both workers returned
C4_Witness ==
    \E j, k \in DOMAIN thread :
        /\ thread[j].pc = "done" /\ job_store[j].status = "complete"
        /\ thread[k].pc = "done" /\ job_store[k].status = "error"

\* C5: in every state, for every job, report_html is set iff the status is
\* complete, and error is set iff the status is error.
C5_ResultIffTerminal ==
    \A j \in DOMAIN job_store :
        /\ (job_store[j].report_html # Null) <=> (job_store[j].status = "complete")
        /\ (job_store[j].error # Null) <=> (job_store[j].status = "error")

\* what a status query of job j answers when it runs in this state
Answer(j) == [status |-> job_store[j].status,
              report_html |-> job_store[j].report_html,
              error |-> job_store[j].error]

\* C6: two status queries of one job that both see a terminal status get the
\* same status, report_html and error: while the status is terminal, no step
\* changes what a query answers.
C6_TerminalAnswerStable ==
    [][\A j \in DOMAIN job_store :
         (Answer(j).status \in Terminal /\ Answer(j)'.status \in Terminal)
             => Answer(j)' = Answer(j)]_vars

\* this step answers a status query with the job's state
Answers == http'.op = "get_status" /\ http'.pc = "done" /\ http'.code = 200

\* C7: every step leaves each job's progress a prefix of its new value, and
\* the progress a status query returns is a prefix of the job's log.
C7_ProgressAppendOnly ==
    [][/\ \A j \in DOMAIN job_store :
            IsPrefix(job_store[j].progress, job_store'[j].progress)
       /\ Answers => IsPrefix(http'.progress, job_store'[http'.job_id].progress)]_vars

\* a query returned a log of two or more messages that has grown since the
\* query read the status
C7_Witness ==
    /\ http.op = "get_status" /\ http.pc = "done" /\ http.code = 200
    /\ Len(http.progress) >= 2
    /\ http.status = "queued"

\* C8: once a job's status is complete or error, no step changes its progress.
C8_ProgressFrozenWhenTerminal ==
    [][\A j \in DOMAIN job_store :
         job_store[j].status \in Terminal
             => job_store'[j].progress = job_store[j].progress]_vars

\* the progress events a connection has emitted, in order
Sent(events) == SelectSeq(events, LAMBDA e : e.event = "progress")

StreamInStep(s, store) ==
    s.pc # "none" /\ s.job_id \in DOMAIN store =>
        LET progress == store[s.job_id].progress
            sent == Sent(s.events)
        IN /\ s.last_idx <= Len(progress)
           /\ Len(sent) = s.last_idx
           /\ \A k \in 1..Len(sent) : sent[k].data = progress[k]

\* C9: the progress events a connection has emitted are exactly the first
\* last_idx messages of the job's log, in order; last_idx never exceeds the
\* log's length and never decreases.
C9_StreamForwardsLogInOrder ==
    [][/\ StreamInStep(stream', job_store')
       /\ stream.pc # "none" => stream'.last_idx >= stream.last_idx]_vars

\* a connection that has slept forwarded three messages and lags behind the log
C9_Witness ==
    /\ stream.pc # "none"
    /\ stream.ticks >= 1
    /\ stream.last_idx >= 3
    /\ stream.last_idx < Len(job_store[stream.job_id].progress)

TerminalEvents(events) ==
    {k \in 1..Len(events) : events[k].event \in {"complete", "error"}}

\* C10: a connection emits at most one complete or error event, that event is
\* its last, and the connection is closed from then on.
C10_OneTerminalEventThenClosed ==
    [][/\ stream'.pc # "none" =>
            /\ Cardinality(TerminalEvents(stream'.events)) <= 1
            /\ TerminalEvents(stream'.events) # {} =>
                   /\ TerminalEvents(stream'.events) = {Len(stream'.events)}
                   /\ stream'.pc = "closed"
       /\ stream.pc = "closed" => stream' = stream]_vars

\* a connection closed on a complete event after forwarding progress, and the
\* worker wrote again after that
C10_Witness ==
    /\ stream.pc = "closed"
    /\ Len(stream.events) >= 2
    /\ stream.events[Len(stream.events)].event = "complete"
    /\ Len(job_store[stream.job_id].progress) > stream.last_idx

\* this step emits the connection's terminal event
EmitsTerminal ==
    /\ stream.pc \notin {"none", "closed"}
    /\ stream'.pc = "closed"
    /\ TerminalEvents(stream'.events) # {}

InFirstIteration(s) == s.ticks = 0 /\ s.pc \in {"L263", "L269", "L273", "L277"}

EventsNamed(events, name) == {k \in 1..Len(events) : events[k].event = name}

\* C12: a connection opened on a job that is already complete stays in its
\* first loop iteration until it closes: it never reaches the sleep, emits no
\* heartbeat and no error event, and when it closes it has emitted exactly one
\* complete event, its last.  (Each step from the opening on keeps the
\* connection in the first iteration, closed, or cancelled by the client.)
C12_LateSubscriberGetsCompleteAtOnce ==
    [][LET opens == /\ stream.pc = "none" /\ stream'.pc # "none"
                    /\ job_store'[stream'.job_id].status = "complete"
           goes_on == /\ stream.pc # "none" /\ InFirstIteration(stream)
                      /\ job_store[stream.job_id].status = "complete"
       IN (opens \/ goes_on) =>
            /\ InFirstIteration(stream') \/ stream'.pc \in {"closed", "cancelled"}
            /\ stream'.ticks = 0
            /\ EventsNamed(stream'.events, "heartbeat") = {}
            /\ EventsNamed(stream'.events, "error") = {}
            /\ stream'.pc = "closed" =>
                  EventsNamed(stream'.events, "complete") = {Len(stream'.events)}]_vars

\* a connection closed before any sleep on a complete event, after it forwarded
\* the whole log of the finished job, the worker's last message included
C12_Witness ==
    /\ stream.pc = "closed" /\ stream.ticks = 0
    /\ stream.events[Len(stream.events)].event = "complete"
    /\ stream.job_id \in DOMAIN thread /\ thread[stream.job_id].pc = "done"
    /\ stream.last_idx = Len(job_store[stream.job_id].progress)
    /\ Len(stream.events) = stream.last_idx + 1

Beats(events) == Cardinality(EventsNamed(events, "heartbeat"))

\* C13: a step emits a heartbeat exactly when it is the 15th, 30th, 45th, ...
\* loop iteration of the connection and the job is not terminal, and it then
\* resets heartbeat_counter to 0; at each sleep point heartbeat_counter is in
\* 0..14 and the connection, then in iteration ticks + 1, has emitted
\* (ticks + 1) \div 15 heartbeats: one for each full window of 15 iterations.
C13_HeartbeatEvery15th ==
    [][/\ stream.pc # "none" =>
            /\ (Beats(stream'.events) # Beats(stream.events)) <=>
                   /\ stream.pc = "L273" /\ stream'.pc = "L289"
                   /\ (stream.ticks + 1) % 15 = 0
            /\ Beats(stream'.events) # Beats(stream.events) =>
                   /\ Beats(stream'.events) = Beats(stream.events) + 1
                   /\ stream'.heartbeat_counter = 0
       /\ (stream'.pc # "none" /\ stream'.pc = "L289") =>
            /\ stream'.heartbeat_counter \in 0..14
            /\ stream'.heartbeat_counter = (stream'.ticks + 1) % 15
            /\ Beats(stream'.events) = (stream'.ticks + 1) \div 15]_vars

\* a connection at the sleep of its 45th iteration, three heartbeats sent, the
\* job still not terminal
C13_Witness ==
    /\ stream.pc = "L289" /\ stream.ticks = 44
    /\ Beats(stream.events) = 3
    /\ stream.heartbeat_counter = 0
    /\ job_store[stream.job_id].status \notin Terminal

\* ---- the calls a content-brief worker has issued

CallsTo(t, to) == {k \in 1..Len(t.calls) : t.calls[k].to = to}

\* the search returned, and the number of results the worker keeps of it
SearchReturned(t) == \E k \in CallsTo(t, "search") : t.calls[k].ok
Kept(t) == LET k == CHOOSE k \in CallsTo(t, "search") : TRUE
           IN IF t.calls[k].arg < 5 THEN t.calls[k].arg ELSE 5

\* the ranks whose page fetch or parse failed
FailedRanks(t) == {t.calls[k].arg : k \in {c \in CallsTo(t, "page") : ~t.calls[c].ok}}

AnalysisReturned(t) == \E k \in CallsTo(t, "analysis") : t.calls[k].ok

NotesOf(log, text) == {k \in 1..Len(log) : log[k][1] = text}

\* C14: a worker whose search returned N >= 1 results (the first 5 kept) and
\* whose analysis call returned ends with status complete, whatever set F of
\* page fetches failed; its log holds exactly one "Skipped page" note for each
\* rank of F and none for another rank; the list it hands to the renderer has
\* N entries, positions 1..N in order, those of F with empty content, and the
\* report has one table row per rank.
C14_FetchFailuresNeverAbort ==
    \A j \in DOMAIN thread :
        LET t == thread[j]
            job == job_store[j]
        IN (t.target = "run_content_brief" /\ t.pc = "done"
               /\ SearchReturned(t) /\ Kept(t) >= 1 /\ AnalysisReturned(t)) =>
             LET N == Kept(t)
                 F == FailedRanks(t)
                 skipped == NotesOf(job.progress, "Skipped page ")
                 doc == job.report_html[1]
             IN /\ job.status = "complete"
                /\ Cardinality(skipped) = Cardinality(F)
                /\ {job.progress[k][2] : k \in skipped} = {ToString(i) : i \in F}
                /\ \E k \in CallsTo(t, "_format_report") : t.calls[k].arg = N
                /\ Len(t.competitor_data) = N
                /\ \A k \in 1..N : t.competitor_data[k].position = k
                /\ \A i \in F : t.competitor_data[i].content = ""
                /\ job.report_html # Null
                /\ Len(doc) = N + 2
                /\ \A k \in 1..N : doc[k + 2] = ToString(k)

\* the search returned six results, five were kept, the fetches of ranks 2 and 4
\* failed, and the worker returned with the job complete
C14_Witness ==
    \E j \in DOMAIN thread :
        /\ thread[j].target = "run_content_brief" /\ thread[j].pc = "done"
        /\ SearchReturned(thread[j]) /\ AnalysisReturned(thread[j])
        /\ \E k \in CallsTo(thread[j], "search") : thread[j].calls[k].arg = 6
        /\ Kept(thread[j]) = 5
        /\ FailedRanks(thread[j]) = {2, 4}
        /\ job_store[j].status = "complete"

\* the search returned an empty list of organic results
SearchReturnedNothing(t) ==
    \E k \in CallsTo(t, "search") : t.calls[k].ok /\ t.calls[k].arg = 0

\* C15: a worker whose search returned zero organic results issues no page
\* fetch, no analysis call and no rendering, writes no "Found ... results",
\* "Fetching" or "Extracted content" message, never sets the job complete, and
\* returns with status error and an error that is not null.
C15_NoResultsIsAnError ==
    \A j \in DOMAIN thread :
        LET t == thread[j]
            job == job_store[j]
        IN (t.target = "run_content_brief" /\ SearchReturnedNothing(t)) =>
             /\ CallsTo(t, "page") = {}
             /\ CallsTo(t, "analysis") = {}
             /\ CallsTo(t, "_format_report") = {}
             /\ NotesOf(job.progress, "Found results: ") = {}
             /\ NotesOf(job.progress, "Fetching ") = {}
             /\ NotesOf(job.progress, "Extracted content from page ") = {}
             /\ job.status # "complete"
             /\ t.pc = "done" => (job.status = "error" /\ job.error # Null)

\* the search returned nothing and the worker returned, the job in error with
\* the message of brief_worker.py:46
C15_Witness ==
    \E j \in DOMAIN thread :
        /\ thread[j].target = "run_content_brief" /\ thread[j].pc = "done"
        /\ SearchReturnedNothing(thread[j])
        /\ job_store[j].status = "error"
        /\ job_store[j].error = Some("No organic search results returned by Serper")

\* one of the two keys is not set in the environment
CredentialMissing(t) ==
    ~t.environ.SERPER_API_KEY \/ ~t.environ.ANTHROPIC_API_KEY

\* C16: a worker that runs without one of its two keys issues no call at all,
\* to the search, to a page or to the analysis, and returns with the job in
\* error.
C16_MissingCredentialFailsFirst ==
    \A j \in DOMAIN thread :
        LET t == thread[j]
        IN (t.target = "run_content_brief" /\ CredentialMissing(t)) =>
             /\ t.calls = <<>>
             /\ t.pc = "done" =>
                  (job_store[j].status = "error" /\ job_store[j].error # Null)

\* this step serves a status query or a stream request for an identifier that
\* is not in the store
AsksUnknown ==
    /\ http.op = "none" /\ http'.op \in {"get_status", "stream"}
    /\ http'.job_id \notin DOMAIN job_store

\* the store with the entry of the connection's job taken out
Without(store, id) == [k \in DOMAIN store \ {id} |-> store[k]]

\* C17: a status query or stream request for an identifier that is not in the
\* store is answered 404 at once and changes neither the store, nor the
\* workers, nor the connection; and a loop iteration that starts on a store
\* without the connection's job appends exactly one event, an error event, and
\* closes the connection.
C17_UnknownJobNotFound ==
    [][/\ AsksUnknown =>
            /\ http'.pc = "done" /\ http'.code = 404
            /\ job_store' = job_store /\ thread' = thread /\ stream' = stream
       /\ stream.pc = "L263" =>
            LET after == LoopTop(Without(job_store, stream.job_id))
            IN /\ after.pc = "closed"
               /\ Len(after.events) = Len(stream.events) + 1
               /\ SubSeq(after.events, 1, Len(stream.events)) = stream.events
               /\ after.events[Len(after.events)].event = "error"]_vars

\* a stream request for an identifier never issued was answered 404 while the
\* store held a job and a connection on that job had sent events and slept
C17_Witness ==
    /\ http.op = "stream" /\ http.pc = "done" /\ http.code = 404
    /\ http.job_id \notin DOMAIN job_store
    /\ DOMAIN job_store # {}
    /\ stream.pc = "L263" /\ stream.ticks >= 1 /\ stream.events # <<>>

\* C18: an entry of the store changes only in a step of that job's own worker,
\* a step that leaves every other worker, the connection and the request being
\* served as they are; every step of the connection (open, poll, emit, sleep,
\* close, client disconnect) and every query, health check and submission leaves
\* every existing entry and every existing worker unchanged.
C18_OnlyTheWorkerWritesItsJob ==
    [][/\ \A j \in DOMAIN job_store :
            job_store'[j] # job_store[j] =>
                /\ j \in DOMAIN thread /\ thread'[j] # thread[j]
                /\ \A k \in DOMAIN thread \ {j} : thread'[k] = thread[k]
                /\ \A k \in DOMAIN job_store \ {j} : job_store'[k] = job_store[k]
                /\ stream' = stream /\ http' = http
       /\ (stream' # stream \/ http' # http) =>
            /\ \A j \in DOMAIN job_store : job_store'[j] = job_store[j]
            /\ \A k \in DOMAIN thread : thread'[k] = thread[k]]_vars

\* the client went away before the log was forwarded, the job's worker ran on
\* to its return, and another job's worker has run as well
C18_Witness ==
    /\ stream.pc = "cancelled"
    /\ stream.job_id \in DOMAIN thread
    /\ thread[stream.job_id].pc = "done"
    /\ job_store[stream.job_id].status = "complete"
    /\ stream.last_idx < Len(job_store[stream.job_id].progress)
    /\ \E k \in DOMAIN thread \ {stream.job_id} : job_store[k].status = "running"

\* the search call or the analysis call failed
CallFailed(t) ==
    \E k \in CallsTo(t, "search") \cup CallsTo(t, "analysis") : ~t.calls[k].ok

\* C19: a worker whose search call or analysis call failed never renders a
\* report and never sets report_html or status complete, and it returns with
\* status error and error set to the description of the failure; and every
\* analysis call comes after the page fetches of all kept ranks 1..N, in order.
C19_SearchOrAnalysisFailureIsFatal ==
    \A j \in DOMAIN thread :
        LET t == thread[j]
            job == job_store[j]
        IN t.target = "run_content_brief" =>
             /\ CallFailed(t) =>
                  /\ job.status # "complete"
                  /\ job.report_html = Null
                  /\ CallsTo(t, "_format_report") = {}
                  /\ t.exc \in {"search request failed", "analysis request failed"}
                  /\ t.pc = "done" =>
                        (job.status = "error" /\ job.error = <<t.exc>>)
             /\ \A a \in CallsTo(t, "analysis") :
                  /\ a = Kept(t) + 2
                  /\ \A i \in 1..Kept(t) :
                        t.calls[i + 1].to = "page" /\ t.calls[i + 1].arg = i

\* five pages were fetched, one of them without success, then the analysis call
\* failed and the worker returned with the job in error
C19_Witness ==
    \E j \in DOMAIN thread :
        /\ thread[j].target = "run_content_brief" /\ thread[j].pc = "done"
        /\ \E k \in CallsTo(thread[j], "analysis") : ~thread[j].calls[k].ok
        /\ Kept(thread[j]) = 5
        /\ FailedRanks(thread[j]) = {3}
        /\ job_store[j].status = "error"
        /\ job_store[j].error = Some("analysis request failed")

\* the connection is open: opened, not returned, not cancelled by the client
Open == stream.pc \notin {"none", "closed", "cancelled"}

\* C20: a connection that is open on a job whose status is terminal eventually
\* closes on exactly one terminal event, its last, named after that status
\* (complete for complete, error for error), unless the client disconnects
\* first.  (A connection is followed for MaxIdleTicks sleeps; one more sleep is
\* all a connection needs once the status is terminal.)
C20_OpenStreamEventuallyCloses ==
    (Open /\ job_store[stream.job_id].status \in Terminal
          /\ stream.ticks < MaxIdleTicks)
        ~> \/ stream.pc = "cancelled"
           \/ /\ stream.pc = "closed"
              /\ TerminalEvents(stream.events) = {Len(stream.events)}
              /\ stream.events[Len(stream.events)].event
                     = job_store[stream.job_id].status

\* a connection that was open for fifteen iterations and more, a heartbeat
\* sent, closed on an error event after the job ended in error
C20_Witness ==
    /\ stream.pc = "closed"
    /\ stream.ticks >= 15 /\ Beats(stream.events) >= 1
    /\ job_store[stream.job_id].status = "error"
    /\ stream.events[Len(stream.events)].event = "error"

\* C21: a connection that closed on its terminal event has emitted a progress
\* event for every message of the job's final log (the log as it is once the
\* worker has returned), in order.
C21_TerminalEventAfterWholeLog ==
    (/\ stream.pc = "closed"
     /\ TerminalEvents(stream.events) # {}
     /\ stream.job_id \in DOMAIN thread
     /\ thread[stream.job_id].pc = "done") =>
        LET progress == job_store[stream.job_id].progress
            sent == Sent(stream.events)
        IN /\ Len(sent) = Len(progress)
           /\ \A k \in 1..Len(sent) : sent[k].data = progress[k]

====
